---- MODULE Spec2Model ----
(***************************************************************************)
(* A model of the sports arbitrage bot (src/bot/fetch.py, src/bot/main.py). *)
(*                                                                         *)
(* Decimal odds are Python floats in the program.  Here a price is an      *)
(* integer number of tenths (21 is 2.10) and every quantity derived from   *)
(* prices (arb_sum, profit_percent) is an exact rational <<n, d>> in       *)
(* lowest terms with d > 0.  On the prices used below the float            *)
(* comparison arb_sum < 1.0 and the two divisions by zero of               *)
(* compute_arbitrage agree with the exact ones.                            *)
(***************************************************************************)
EXTENDS Integers, Sequences, FiniteSets, TLC

VARIABLES
    odds_list,          \* the argument of a direct compute_arbitrage call
    calc,               \* what that call did (tag "pending" before it)
    cached_sports,      \* Fetch._cached_sports: <<>> for None, <<list>> once set
    sports_requests,    \* HTTP requests sent for the sports list
    sports_ok,          \* of those, the ones that filled the cache
    calls,              \* fetch_sports calls made so far
    returned,           \* what the latest fetch_sports call returned
    pc,                 \* where Fetch.run is
    sports,             \* run's local: the list fetch_sports returned
    idx,                \* run's loop position in sports
    odds_data,          \* Fetch.odds_data (instance variable)
    odds_requests,      \* the odds requests sent, in order, with their replies
    arb_opportunities,  \* run's local: the result of the compute step
    csv_written         \* whether arbitrage_opportunities.csv was written

vars == <<odds_list, calc, cached_sports, sports_requests, sports_ok, calls,
          returned, pc, sports, idx, odds_data, odds_requests,
          arb_opportunities, csv_written>>

fetchVars == <<cached_sports, sports_requests, sports_ok, calls, returned, pc,
               sports, idx, odds_data, odds_requests, arb_opportunities,
               csv_written>>

(***************************************************************************)
(* Bounds of the model.                                                    *)
(***************************************************************************)
\* Longest record list handed to compute_arbitrage.
MaxLen == 4

\* Most fetch_sports calls in one process.
MaxCalls == 3

\* Most entries in a sports-list response.
MaxSports == 2

\* for odd in self.odds_data[:1000]
ScanLimit == 1000

Abs(x) == IF x < 0 THEN -x ELSE x

RECURSIVE GCD(_, _)
GCD(a, b) == IF b = 0 THEN a ELSE GCD(b, a % b)

(***************************************************************************)
(* Exact rationals standing for the program's floats.                      *)
(***************************************************************************)
Rat(n, d) ==
    LET g == GCD(Abs(n), Abs(d))
        s == IF d < 0 THEN -1 ELSE 1
    IN  <<(s * n) \div g, (s * d) \div g>>

RatAdd(x, y) == Rat(x[1] * y[2] + y[1] * x[2], x[2] * y[2])

RatSub(x, y) == Rat(x[1] * y[2] - y[1] * x[2], x[2] * y[2])

RatMul(x, y) == Rat(x[1] * y[1], x[2] * y[2])

RatInv(x) == Rat(x[2], x[1])

RatLess(x, y) == x[1] * y[2] < y[1] * x[2]

RatOne == Rat(1, 1)

RatZero == Rat(0, 1)

RatHundred == Rat(100, 1)

\* A price in tenths as the float it stands for.
Price(p) == Rat(p, 10)

(***************************************************************************)
(* The inputs: odds records.                                               *)
(***************************************************************************)
Events ==
    { <<"nba", "Lakers", "Celtics">>,
      <<"nba", "Celtics", "Lakers">>,
      <<"nfl", "Lakers", "Celtics">> }

\* <<bookmaker, home_odds, away_odds>>
Offers ==
    { <<"A", 21, 20>>, <<"B", 20, 25>>, <<"A", 15, 15>>,
      <<"B", 0, 25>>, <<"A", -20, 0>> }

OddsRecord(e, o) ==
    [sport |-> e[1], home_team |-> e[2], away_team |-> e[3],
     bookmaker |-> o[1], home_odds |-> o[2], away_odds |-> o[3]]

Records == { OddsRecord(e, o) : e \in Events, o \in Offers }

(***************************************************************************)
(* ArbitrageCalculator.compute_arbitrage                                   *)
(***************************************************************************)
EventKey(odd) == <<odd.sport, odd.home_team, odd.away_team>>

\* GroupInsert with a key that leaves the sport out.
GroupInsertTeamsOnly(event_odds, odd) ==
    LET at == { k \in 1..Len(event_odds) :
                  /\ event_odds[k].key[2] = odd.home_team
                  /\ event_odds[k].key[3] = odd.away_team }
    IN  IF at = {}
        THEN Append(event_odds,
                    [key |-> <<odd.sport, odd.home_team, odd.away_team>>,
                     group |-> <<odd>>])
        ELSE [k \in 1..Len(event_odds) |->
                IF k \in at
                THEN [event_odds[k] EXCEPT !.group = Append(@, odd)]
                ELSE event_odds[k]]

\* One iteration of the grouping loop: event_odds is a dict, kept here as the
\* sequence of its items in insertion order.
GroupInsert(event_odds, odd) ==
    LET key == EventKey(odd)
        at == { k \in 1..Len(event_odds) : event_odds[k].key = key }
    IN  IF at = {}
        THEN Append(event_odds, [key |-> key, group |-> <<odd>>])
        ELSE [k \in 1..Len(event_odds) |->
                IF k \in at
                THEN [event_odds[k] EXCEPT !.group = Append(@, odd)]
                ELSE event_odds[k]]

RECURSIVE GroupLoop(_, _, _)
GroupLoop(list, n, event_odds) ==
    IF n > Len(list) THEN event_odds
    ELSE GroupLoop(list, n + 1, GroupInsert(event_odds, list[n]))

GroupByEvent(list) == GroupLoop(list, 1, <<>>)

\* for odd2 in odds_group[i + 1:], from position j on
RECURSIVE InnerLoop(_, _, _, _)
InnerLoop(key, group, i, j) ==
    IF j > Len(group) THEN <<>>
    ELSE <<[key |-> key, odd1 |-> group[i], odd2 |-> group[j]]>>
         \o InnerLoop(key, group, i, j + 1)

\* InnerPairs with the slice odds_group[i:], which pairs a record with itself.
InnerPairsFromSelf(key, group, i) == InnerLoop(key, group, i, i)

\* The slice odds_group[i + 1:] of the inner loop.
InnerPairs(key, group, i) == InnerLoop(key, group, i, i + 1)

RECURSIVE OuterLoop(_, _, _)
OuterLoop(key, group, i) ==
    IF i > Len(group) THEN <<>>
    ELSE InnerPairs(key, group, i) \o OuterLoop(key, group, i + 1)

RECURSIVE EventLoop(_, _)
EventLoop(event_odds, k) ==
    IF k > Len(event_odds) THEN <<>>
    ELSE OuterLoop(event_odds[k].key, event_odds[k].group, 1)
         \o EventLoop(event_odds, k + 1)

\* The legs the loop body reads from a pair.
HomeLeg(pair) == pair.odd1

AwayLeg(pair) == pair.odd2

ArbSum(home_odds, away_odds) ==
    RatAdd(RatInv(Price(home_odds)), RatInv(Price(away_odds)))

\* IsArbitrage with arb_sum <= 1.0.
IsArbitrageOrEqual(arb_sum) == ~RatLess(RatOne, arb_sum)

\* if arb_sum < 1.0
IsArbitrage(arb_sum) == RatLess(arb_sum, RatOne)

ProfitPercent(arb_sum) == RatMul(RatSub(RatInv(arb_sum), RatOne), RatHundred)

\* The loop body on one pair: a ZeroDivisionError, nothing, or one arb_dict.
Evaluate(pair) ==
    LET home_odds == HomeLeg(pair).home_odds
        away_odds == AwayLeg(pair).away_odds
    IN  IF home_odds = 0 \/ away_odds = 0
        THEN [tag |-> "raise"]
        ELSE LET arb_sum == ArbSum(home_odds, away_odds)
             IN  IF ~IsArbitrage(arb_sum) THEN [tag |-> "skip"]
                 ELSE IF arb_sum = RatZero THEN [tag |-> "raise"]
                 ELSE [tag |-> "opp",
                       opp |-> [sport |-> pair.key[1],
                                home_team |-> pair.key[2],
                                away_team |-> pair.key[3],
                                home_bookmaker |-> HomeLeg(pair).bookmaker,
                                away_bookmaker |-> AwayLeg(pair).bookmaker,
                                home_odds |-> home_odds,
                                away_odds |-> away_odds,
                                profit_percent |-> ProfitPercent(arb_sum)]]

\* The loops over pairs from the k-th on: the list arbitrage_opportunities as
\* it stands when the loops end, and whether they ended in an exception.
RECURSIVE PairLoop(_, _, _)
PairLoop(pairs, k, found) ==
    IF k > Len(pairs) THEN [raised |-> FALSE, found |-> found]
    ELSE LET e == Evaluate(pairs[k])
         IN  CASE e.tag = "raise" -> [raised |-> TRUE, found |-> found]
               [] e.tag = "opp" -> PairLoop(pairs, k + 1, Append(found, e.opp))
               [] OTHER -> PairLoop(pairs, k + 1, found)

\* ReturnValue handing back the last opportunity found.
ReturnLast(found) ==
    IF found # <<>> THEN <<found[Len(found)]>> ELSE <<>>

\* What the function hands back from the list it built: an Optional, kept as
\* <<>> for None and <<arb_dict>> for a dict.
ReturnValue(found) ==
    IF found # <<>> THEN <<found[1]>> ELSE <<>>

\* compute_arbitrage(odds_list): tag "return" with the value handed back, or
\* tag "raise" (ZeroDivisionError); event_odds and found are the locals
\* event_odds and arbitrage_opportunities as the call left them.
compute_arbitrage(list) ==
    IF list = <<>>
    THEN [tag |-> "return", value |-> <<>>, found |-> <<>>, event_odds |-> <<>>]
    ELSE LET event_odds == GroupByEvent(list)
             r == PairLoop(EventLoop(event_odds, 1), 1, <<>>)
         IN  IF r.raised
             THEN [tag |-> "raise", value |-> <<>>, found |-> r.found,
                   event_odds |-> event_odds]
             ELSE [tag |-> "return", value |-> ReturnValue(r.found),
                   found |-> r.found, event_odds |-> event_odds]

(***************************************************************************)
(* Fetch.fetch_sports                                                      *)
(***************************************************************************)
SportKeys == {"nba", "nfl"}

\* An entry of the sports response without a "key".
Malformed == "malformed"

\* What requests.get(sports_url) can give: status 200 with a JSON list, another
\* status, or an exception.
SportsResponses ==
    { [kind |-> "ok", body |-> b] :
        b \in UNION { [1..n -> SportKeys \cup {Malformed}] : n \in 0..MaxSports } }
    \cup { [kind |-> "status", body |-> <<>>],
           [kind |-> "exception", body |-> <<>>] }

\* for sport in response.json(): sports.append(sport["key"]), which raises
\* KeyError at the first entry without a key.
RECURSIVE SportsLoop(_, _, _)
SportsLoop(body, k, acc) ==
    IF k > Len(body) THEN [raised |-> FALSE, sports |-> acc]
    ELSE IF body[k] = Malformed THEN [raised |-> TRUE, sports |-> acc]
    ELSE SportsLoop(body, k + 1, Append(acc, body[k]))

\* CacheHit that never finds the cache set.
CacheNeverHit(cache) == FALSE

\* if Fetch._cached_sports is not None
CacheHit(cache) == cache # <<>>

\* The cache after a request was answered 200 and its list read to the end.
CacheStore(cache, list) == <<list>>

\* fetch_sports with the cache as the call finds it and the reply the provider
\* would give: the list returned, the cache afterwards, whether a request was
\* sent and whether it filled the cache.
fetch_sports(cache, resp) ==
    IF CacheHit(cache)
    THEN [ret |-> cache[1], cache |-> cache, sent |-> FALSE, stored |-> FALSE]
    ELSE IF resp.kind = "ok"
    THEN LET r == SportsLoop(resp.body, 1, <<>>)
         IN  IF r.raised
             THEN [ret |-> r.sports, cache |-> cache, sent |-> TRUE,
                   stored |-> FALSE]
             ELSE [ret |-> r.sports, cache |-> CacheStore(cache, r.sports),
                   sent |-> TRUE, stored |-> TRUE]
    ELSE [ret |-> <<>>, cache |-> cache, sent |-> TRUE, stored |-> FALSE]

(***************************************************************************)
(* Fetch.fetch_odds                                                        *)
(***************************************************************************)
\* An outcome of a market: its name and its price, <<>> when it has none.
Outcome(name, price) == [name |-> name, price |-> price]

Market(key, outcomes) == [key |-> key, outcomes |-> outcomes]

Book(key, markets) == [key |-> key, markets |-> markets]

Game(home, away, books) ==
    [home_team |-> home, away_team |-> away, bookmakers |-> books]

\* Bookmaker A quotes 2.10 / 2.00 and bookmaker B 2.00 / 2.50 on home / away.
BothA(h, a) == Book("A", <<Market("h2h", <<Outcome(h, <<21>>), Outcome(a, <<20>>)>>)>>)

BothB(h, a) == Book("B", <<Market("h2h", <<Outcome(h, <<20>>), Outcome(a, <<25>>)>>)>>)

NoHomeB(h, a) == Book("B", <<Market("h2h", <<Outcome("Draw", <<30>>), Outcome(a, <<25>>)>>)>>)

NoAwayA(h, a) == Book("A", <<Market("h2h", <<Outcome(h, <<21>>)>>)>>)

NoPriceA(h, a) == Book("A", <<Market("h2h", <<Outcome(h, <<>>), Outcome(a, <<20>>)>>)>>)

SpreadsA(h, a) == Book("A", <<Market("spreads", <<Outcome(h, <<19>>), Outcome(a, <<19>>)>>)>>)

\* The JSON lists an odds response may carry.
Payloads ==
    { <<>>,
      <<Game("Lakers", "Celtics", <<BothA("Lakers", "Celtics"), BothB("Lakers", "Celtics")>>)>>,
      <<Game("Lakers", "Celtics", <<BothA("Lakers", "Celtics"), NoHomeB("Lakers", "Celtics")>>)>>,
      <<Game("Lakers", "Celtics", <<NoAwayA("Lakers", "Celtics"), BothB("Lakers", "Celtics")>>)>>,
      <<Game("Lakers", "Celtics", <<NoPriceA("Lakers", "Celtics"), BothB("Lakers", "Celtics")>>)>>,
      <<Game("Lakers", "Celtics", <<SpreadsA("Lakers", "Celtics")>>)>>,
      <<Game("Lakers", "Celtics", <<BothA("Lakers", "Celtics")>>),
        Game("Celtics", "Lakers", <<NoHomeB("Celtics", "Lakers")>>)>>,
      <<Game("Lakers", "Celtics", <<NoAwayA("Lakers", "Celtics")>>),
        Game("Celtics", "Lakers", <<BothB("Celtics", "Lakers")>>)>> }

\* What requests.get(odds_url) can give.
OddsResponses ==
    { [kind |-> "ok", data |-> p] : p \in Payloads }
    \cup { [kind |-> "status", data |-> <<>>],
           [kind |-> "exception", data |-> <<>>] }

\* outcome.get("price", 0.0)
PriceOrDefault(outcome) == IF outcome.price = <<>> THEN 0 ELSE outcome.price[1]

\* for outcome in market.get("outcomes", []).  The locals home_odds and
\* away_odds are <<>> while unbound and <<price>> once assigned.
RECURSIVE OutcomeLoop(_, _, _, _, _)
OutcomeLoop(outcomes, k, home_team, away_team, st) ==
    IF k > Len(outcomes) THEN st
    ELSE LET o == outcomes[k]
             next == IF o.name = home_team
                     THEN [st EXCEPT !.home_odds = <<PriceOrDefault(o)>>]
                     ELSE IF o.name = away_team
                     THEN [st EXCEPT !.away_odds = <<PriceOrDefault(o)>>]
                     ELSE st
         IN  OutcomeLoop(outcomes, k + 1, home_team, away_team, next)

\* The locals home_odds and away_odds as the body of "for book" finds them:
\* nothing resets them between bookmakers or games.
LocalsAtBook(st) == st

\* self.odds_data.append({...}): reading an unbound local raises
\* UnboundLocalError.
AppendOdds(st, sport, game, book) ==
    IF st.home_odds = <<>> \/ st.away_odds = <<>>
    THEN [st EXCEPT !.raised = TRUE]
    ELSE [st EXCEPT !.data =
            Append(@, [sport |-> sport,
                       home_team |-> game.home_team,
                       away_team |-> game.away_team,
                       bookmaker |-> book.key,
                       home_odds |-> st.home_odds[1],
                       away_odds |-> st.away_odds[1]])]

\* for market in book.get("markets", [])
RECURSIVE MarketLoop(_, _, _, _, _)
MarketLoop(sport, game, book, k, st) ==
    IF k > Len(book.markets) \/ st.raised THEN st
    ELSE LET m == book.markets[k]
             next == IF m.key = "h2h"
                     THEN AppendOdds(OutcomeLoop(m.outcomes, 1, game.home_team,
                                                 game.away_team, st),
                                     sport, game, book)
                     ELSE st
         IN  MarketLoop(sport, game, book, k + 1, next)

\* for book in game.get("bookmakers", [])
RECURSIVE BookLoop(_, _, _, _)
BookLoop(sport, game, k, st) ==
    IF k > Len(game.bookmakers) \/ st.raised THEN st
    ELSE BookLoop(sport, game, k + 1,
                  MarketLoop(sport, game, game.bookmakers[k], 1, LocalsAtBook(st)))

\* for game in data
RECURSIVE GameLoop(_, _, _, _)
GameLoop(sport, data, k, st) ==
    IF k > Len(data) \/ st.raised THEN st
    ELSE GameLoop(sport, data, k + 1, BookLoop(sport, data[k], 1, st))

\* Propagates with no except clause: the exception leaves fetch_odds.
PropagatesUncaught(raised) == raised

\* What the two except clauses do with an exception raised inside the try.
Propagates(raised) == FALSE

\* self.odds_data after an exception or a non-200 status.
KeepOnFailure(data) == data

\* fetch_odds(sport) on self.odds_data = data with the provider's reply: the
\* new odds_data and whether an exception leaves the method.
fetch_odds(data, sport, resp) ==
    IF resp.kind = "exception"
    THEN [data |-> KeepOnFailure(data), raised |-> Propagates(TRUE)]
    ELSE IF resp.kind = "status"
    THEN [data |-> KeepOnFailure(data), raised |-> FALSE]
    ELSE LET st == GameLoop(sport, resp.data, 1,
                            [data |-> data, home_odds |-> <<>>,
                             away_odds |-> <<>>, raised |-> FALSE])
         IN  [data |-> st.data, raised |-> Propagates(st.raised)]

(***************************************************************************)
(* Fetch.run                                                               *)
(***************************************************************************)
\* self.odds_data[:limit]
Take(data, limit) == SubSeq(data, 1, IF Len(data) < limit THEN Len(data) ELSE limit)

\* The argument of each compute_arbitrage call of the compute step.
ScanArgument(data, k) == <<data[k]>>

\* for odd in self.odds_data[:1000]: arb = compute_arbitrage([odd]);
\* if arb: arb_opportunities.append(arb)
RECURSIVE ScanLoop(_, _, _)
ScanLoop(data, k, found) ==
    IF k > Len(data) THEN [raised |-> FALSE, found |-> found]
    ELSE LET r == compute_arbitrage(ScanArgument(data, k))
         IN  IF r.tag = "raise" THEN [raised |-> TRUE, found |-> found]
             ELSE ScanLoop(data, k + 1, found \o r.value)

\* The compute step of run over self.odds_data.
RunScan(data) == ScanLoop(Take(data, ScanLimit), 1, <<>>)

FetchIdle ==
    /\ cached_sports = <<>>
    /\ sports_requests = 0
    /\ sports_ok = 0
    /\ calls = 0
    /\ returned = <<>>
    /\ pc = "idle"
    /\ sports = <<>>
    /\ idx = 0
    /\ odds_data = <<>>
    /\ odds_requests = <<>>
    /\ arb_opportunities = <<>>
    /\ csv_written = FALSE

Init ==
    /\ odds_list = <<>>
    /\ calc = [tag |-> "pending", value |-> <<>>, found |-> <<>>,
               event_odds |-> <<>>]
    /\ FetchIdle

\* A fetch_sports call outside run (any instance: the cache is the class's).
FetchSportsCall ==
    /\ pc \in {"idle", "done"}
    /\ calls < MaxCalls
    /\ \E resp \in SportsResponses :
         LET r == fetch_sports(cached_sports, resp)
         IN  /\ cached_sports' = r.cache
             /\ returned' = r.ret
             /\ sports_requests' = sports_requests + (IF r.sent THEN 1 ELSE 0)
             /\ sports_ok' = sports_ok + (IF r.stored THEN 1 ELSE 0)
    /\ calls' = calls + 1
    /\ UNCHANGED <<odds_list, calc, pc, sports, idx, odds_data, odds_requests,
                   arb_opportunities, csv_written>>

\* run up to its loop: sports = self.fetch_sports(); return if it is empty.
RunStart ==
    /\ pc = "idle"
    /\ calls < MaxCalls
    /\ \E resp \in SportsResponses :
         LET r == fetch_sports(cached_sports, resp)
         IN  /\ cached_sports' = r.cache
             /\ returned' = r.ret
             /\ sports' = r.ret
             /\ sports_requests' = sports_requests + (IF r.sent THEN 1 ELSE 0)
             /\ sports_ok' = sports_ok + (IF r.stored THEN 1 ELSE 0)
             /\ pc' = IF r.ret = <<>> THEN "done" ELSE "fetch"
    /\ calls' = calls + 1
    /\ idx' = 1
    /\ UNCHANGED <<odds_list, calc, odds_data, odds_requests,
                   arb_opportunities, csv_written>>

\* One iteration of "for sport in sports": self.fetch_odds(sport).
FetchOdds ==
    /\ pc = "fetch"
    /\ \E resp \in OddsResponses :
         LET r == fetch_odds(odds_data, sports[idx], resp)
         IN  /\ odds_data' = r.data
             /\ odds_requests' =
                  Append(odds_requests,
                         [sport |-> sports[idx], resp |-> resp,
                          before |-> Len(odds_data)])
             /\ pc' = IF r.raised THEN "crashed_fetch"
                      ELSE IF idx = Len(sports) THEN "compute" ELSE "fetch"
    /\ idx' = idx + 1
    /\ UNCHANGED <<odds_list, calc, cached_sports, sports_requests, sports_ok,
                   calls, returned, sports, arb_opportunities, csv_written>>

\* The compute step of run and the CSV file.
ComputeStep ==
    /\ pc = "compute"
    /\ LET r == RunScan(odds_data)
       IN  /\ arb_opportunities' = r.found
           /\ pc' = IF r.raised THEN "crashed_compute" ELSE "done"
           /\ csv_written' = (~r.raised /\ r.found # <<>>)
    /\ UNCHANGED <<odds_list, calc, cached_sports, sports_requests, sports_ok,
                   calls, returned, sports, idx, odds_data, odds_requests>>

Next == FetchSportsCall \/ RunStart \/ FetchOdds \/ ComputeStep

Spec == Init /\ [][Next]_vars

(***************************************************************************)
(* Direct calls of compute_arbitrage on arbitrary record lists.            *)
(***************************************************************************)
InitCalc ==
    /\ \E n \in 0..MaxLen : odds_list \in [1..n -> Records]
    /\ calc = [tag |-> "pending", value |-> <<>>, found |-> <<>>,
               event_odds |-> <<>>]
    /\ FetchIdle

Compute ==
    /\ calc.tag = "pending"
    /\ calc' = compute_arbitrage(odds_list)
    /\ UNCHANGED <<odds_list, fetchVars>>

NextCalc == Compute

SpecCalc == InitCalc /\ [][NextCalc]_vars

(***************************************************************************)
(* The properties.  Their vocabulary is defined on the input list         *)
(* itself, by positions, not through the loops above.                      *)
(***************************************************************************)
SameEvent(r1, r2) ==
    /\ r1.sport = r2.sport
    /\ r1.home_team = r2.home_team
    /\ r1.away_team = r2.away_team

\* Positions i < j of the list holding records of one event.
ForwardPairs(list) ==
    { p \in (1..Len(list)) \X (1..Len(list)) :
        p[1] < p[2] /\ SameEvent(list[p[1]], list[p[2]]) }

\* 1/h + 1/a < 1 for prices h and a in tenths, neither zero.
SumBelowOne(h, a) ==
    /\ h # 0
    /\ a # 0
    /\ IF h * a > 0 THEN 10 * (h + a) < h * a ELSE 10 * (h + a) > h * a

Qualifying(list) ==
    { p \in ForwardPairs(list) :
        SumBelowOne(list[p[1]].home_odds, list[p[2]].away_odds) }

\* The first position of the list holding the event of position i.
FirstSeen(list, i) ==
    CHOOSE k \in 1..i :
        /\ SameEvent(list[k], list[i])
        /\ \A m \in 1..(k - 1) : ~SameEvent(list[m], list[i])

\* Pair-enumeration order: groups first-seen, then i ascending, then j.
\* first[i] is the first position holding the event of position i.
Before(first, p, q) ==
    \/ first[p[1]] < first[q[1]]
    \/ first[p[1]] = first[q[1]] /\ p[1] < q[1]
    \/ first[p[1]] = first[q[1]] /\ p[1] = q[1] /\ p[2] < q[2]

Rank(first, qualifying, p) ==
    1 + Cardinality({ q \in qualifying : Before(first, q, p) })

\* The opportunity of the pair p: home leg from p[1], away leg from p[2].
OpportunityOf(list, p) ==
    LET h == list[p[1]].home_odds
        a == list[p[2]].away_odds
    IN  [sport |-> list[p[1]].sport,
         home_team |-> list[p[1]].home_team,
         away_team |-> list[p[1]].away_team,
         home_bookmaker |-> list[p[1]].bookmaker,
         away_bookmaker |-> list[p[2]].bookmaker,
         home_odds |-> h,
         away_odds |-> a,
         profit_percent |-> Rat(10 * (h * a - 10 * (h + a)), h + a)]

\* The list holds one opportunity per qualifying pair, in enumeration order.
AllInOrder(list, found) ==
    LET qualifying == Qualifying(list)
        first == [i \in 1..Len(list) |-> FirstSeen(list, i)]
    IN  /\ Len(found) = Cardinality(qualifying)
        /\ \A p \in qualifying :
              found[Rank(first, qualifying, p)] = OpportunityOf(list, p)

\* The first qualifying pair in enumeration order, as a set: empty when no
\* pair qualifies.
FirstQualifying(list) ==
    LET qualifying == Qualifying(list)
        first == [i \in 1..Len(list) |-> FirstSeen(list, i)]
    IN  { p \in qualifying : \A q \in qualifying : ~Before(first, q, p) }

Called == calc.tag # "pending"

Returned == calc.tag = "return"

AllPositive(list) ==
    \A k \in 1..Len(list) : list[k].home_odds > 0 /\ list[k].away_odds > 0

\* C2 as claimed: compute_arbitrage returns one opportunity for every
\* qualifying pair (i < j in one event group, arb_sum < 1), in pair-enumeration
\* order.  Stated on positive prices, where no division by zero interferes.
C2_ReturnsEveryPair ==
    (Returned /\ AllPositive(odds_list)) => AllInOrder(odds_list, calc.value)

\* C2 as amended: when compute_arbitrage returns, it returns at most one
\* opportunity: None when no pair qualifies, otherwise only the first
\* qualifying pair's opportunity in pair-enumeration order; the list it built
\* holds one opportunity per qualifying pair in that order.
C2_ReturnsFirstPair ==
    Returned =>
        /\ AllInOrder(odds_list, calc.found)
        /\ Qualifying(odds_list) = {} => calc.value = <<>>
        /\ \A p \in FirstQualifying(odds_list) :
             calc.value = <<OpportunityOf(odds_list, p)>>

\* Two events both hold a qualifying pair, the first-seen event's pair closing
\* last, and one opportunity is returned.
C2_Witness ==
    /\ Returned
    /\ AllPositive(odds_list)
    /\ Len(odds_list) = 4
    /\ Qualifying(odds_list) = {<<1, 4>>, <<2, 3>>}
    /\ calc.value = <<OpportunityOf(odds_list, <<1, 4>>)>>

\* C3: on positive prices every opportunity has 1/home_odds + 1/away_odds < 1
\* (home_odds + away_odds < home_odds * away_odds) and profit_percent > 0, and
\* pairs whose sum is 1 or more produce none.
C3_StrictThreshold ==
    (Called /\ AllPositive(odds_list)) =>
        /\ \A k \in 1..Len(calc.found) :
             LET opp == calc.found[k]
             IN  /\ 10 * (opp.home_odds + opp.away_odds)
                      < opp.home_odds * opp.away_odds
                 /\ opp.profit_percent[1] > 0
                 /\ opp.profit_percent[2] > 0
        /\ Len(calc.found) <= Cardinality(Qualifying(odds_list))

\* Positive prices with a pair summing to exactly 1 and another below 1.
C3_Witness ==
    /\ Returned
    /\ AllPositive(odds_list)
    /\ calc.found # <<>>
    /\ \E p \in ForwardPairs(odds_list) :
         LET h == odds_list[p[1]].home_odds
             a == odds_list[p[2]].away_odds
         IN  10 * (h + a) = h * a

\* No price is negative and some price is zero.
HasZeroPrice(list) ==
    /\ \A k \in 1..Len(list) : list[k].home_odds >= 0 /\ list[k].away_odds >= 0
    /\ \E k \in 1..Len(list) : list[k].home_odds = 0 \/ list[k].away_odds = 0

\* C4 as claimed: a record with home_odds = 0 or away_odds = 0 never makes
\* compute_arbitrage fault; pairs with the zero price give no opportunity.
C4_ZeroPriceNoFault ==
    (Called /\ HasZeroPrice(odds_list)) => Returned

\* C5 as claimed: every opportunity produced has home_odds > 0 and
\* away_odds > 0.
C5_PositiveLegs ==
    Called =>
        \A k \in 1..Len(calc.found) :
            calc.found[k].home_odds > 0 /\ calc.found[k].away_odds > 0

\* The opportunity takes its home leg from position p[1] and its away leg
\* from position p[2].
LegsFrom(list, opp, p) ==
    /\ opp.home_odds = list[p[1]].home_odds
    /\ opp.home_bookmaker = list[p[1]].bookmaker
    /\ opp.away_odds = list[p[2]].away_odds
    /\ opp.away_bookmaker = list[p[2]].bookmaker

\* C6: every opportunity's home leg comes from a record strictly earlier in
\* its event group than the record of its away leg; the reverse assignment
\* and a record paired with itself are never evaluated, so there are exactly
\* as many opportunities as qualifying forward pairs.
C6_AsymmetricPairing ==
    Called =>
        LET qualifying == Qualifying(odds_list)
        IN  /\ \A k \in 1..Len(calc.found) :
                 \E p \in qualifying : LegsFrom(odds_list, calc.found[k], p)
            /\ Returned => Len(calc.found) = Cardinality(qualifying)

\* Two records of one event where only the reverse assignment and a
\* self-pairing are below 1: nothing is found.
C6_Witness ==
    /\ Returned
    /\ Len(odds_list) = 2
    /\ SameEvent(odds_list[1], odds_list[2])
    /\ ~SumBelowOne(odds_list[1].home_odds, odds_list[2].away_odds)
    /\ SumBelowOne(odds_list[2].home_odds, odds_list[1].away_odds)
    /\ SumBelowOne(odds_list[2].home_odds, odds_list[2].away_odds)
    /\ calc.found = <<>>

\* The records of the list with the event of r, in list order.
EventRecords(list, r) == SelectSeq(list, LAMBDA x : SameEvent(x, r))

\* C7: the two records behind an opportunity have the same (sport, home_team,
\* away_team), which is the opportunity's; each group holds exactly the
\* records of its event, in input order and with duplicates kept.
C7_GroupsByEvent ==
    Called =>
        LET pairs == ForwardPairs(odds_list)
            records == [k \in 1..Len(odds_list) |->
                          EventRecords(odds_list, odds_list[k])]
        IN  /\ \A k \in 1..Len(calc.found) :
                 \E p \in pairs :
                    /\ LegsFrom(odds_list, calc.found[k], p)
                    /\ calc.found[k].sport = odds_list[p[1]].sport
                    /\ calc.found[k].home_team = odds_list[p[1]].home_team
                    /\ calc.found[k].away_team = odds_list[p[1]].away_team
            /\ \A k \in 1..Len(odds_list) :
                 \E g \in 1..Len(calc.event_odds) :
                    calc.event_odds[g].group = records[k]
            /\ \A g \in 1..Len(calc.event_odds) :
                 \E k \in 1..Len(odds_list) :
                    calc.event_odds[g].group = records[k]

\* Records of two events interleaved, one event with the same bookmaker's
\* record twice, and an opportunity found.
C7_Witness ==
    /\ Returned
    /\ AllPositive(odds_list)
    /\ Len(odds_list) = 4
    /\ Len(calc.event_odds) = 2
    /\ SameEvent(odds_list[1], odds_list[3])
    /\ odds_list[1] = odds_list[3]
    /\ SameEvent(odds_list[2], odds_list[4])
    /\ calc.found # <<>>

\* C1 as claimed: when two records among those the compute step of run
\* considers share an event and the earlier one's home_odds h and the later
\* one's away_odds a are positive with 1/h + 1/a < 1, the result of the step
\* holds an opportunity for that event with those odds and profit_percent
\* (1/(1/h + 1/a) - 1) * 100.
C1_ScanFindsArbitrage ==
    pc = "done" =>
        LET considered == Take(odds_data, ScanLimit)
        IN  \A p \in Qualifying(considered) :
                (considered[p[1]].home_odds > 0 /\ considered[p[2]].away_odds > 0)
                => \E k \in 1..Len(arb_opportunities) :
                      arb_opportunities[k] = OpportunityOf(considered, p)

Named(outcomes, name) == { k \in 1..Len(outcomes) : outcomes[k].name = name }

\* The price of the outcome called name, 0 when that outcome or its price is
\* absent.
PriceNamed(outcomes, name) ==
    LET at == Named(outcomes, name)
    IN  IF at = {} THEN 0
        ELSE LET k == CHOOSE x \in at : \A y \in at : y <= x
             IN  IF outcomes[k].price = <<>> THEN 0 ELSE outcomes[k].price[1]

RECURSIVE Concat(_)
Concat(ss) == IF ss = <<>> THEN <<>> ELSE Head(ss) \o Concat(Tail(ss))

\* One record per h2h market of every bookmaker of every game, priced from
\* that market alone.
ExpectedRecords(sport, data) ==
    Concat([g \in 1..Len(data) |->
      Concat([b \in 1..Len(data[g].bookmakers) |->
        Concat([m \in 1..Len(data[g].bookmakers[b].markets) |->
          LET market == data[g].bookmakers[b].markets[m]
          IN  IF market.key # "h2h" THEN <<>>
              ELSE <<[sport |-> sport,
                      home_team |-> data[g].home_team,
                      away_team |-> data[g].away_team,
                      bookmaker |-> data[g].bookmakers[b].key,
                      home_odds |-> PriceNamed(market.outcomes, data[g].home_team),
                      away_odds |-> PriceNamed(market.outcomes, data[g].away_team)]>>])])])

\* C9 as claimed: the records fetch_odds appends for a 200 reply are one per
\* h2h market, each with the prices of the outcomes named home_team and
\* away_team in that game's, that bookmaker's market, 0.0 when the outcome or
\* its price is absent; a missing outcome aborts nothing.
C9_MissingPriceIsZero ==
    \A n \in 1..Len(odds_requests) :
        LET req == odds_requests[n]
            after == IF n < Len(odds_requests)
                     THEN odds_requests[n + 1].before ELSE Len(odds_data)
        IN  req.resp.kind = "ok" =>
                SubSeq(odds_data, req.before + 1, after)
                    = ExpectedRecords(req.sport, req.resp.data)

RequestedSports == [n \in 1..Len(odds_requests) |-> odds_requests[n].sport]

IsPrefix(s, t) == Len(s) <= Len(t) /\ SubSeq(t, 1, Len(s)) = s

\* C10: run sends exactly one odds request per sport, in list order; a
\* non-200 status or an exception never leaves fetch_odds nor stops the
\* requests for the remaining sports, the records collected so far stay in
\* odds_data, and the compute step starts only after every sport was tried.
C10_SoftFailAndContinue ==
    /\ [](/\ pc # "crashed_fetch"
          /\ pc = "idle" => odds_requests = <<>>
          /\ pc = "fetch" => RequestedSports = SubSeq(sports, 1, idx - 1)
          /\ pc \in {"compute", "done", "crashed_compute"} => RequestedSports = sports)
    /\ [][IsPrefix(odds_data, odds_data')]_vars

\* Two sports: the first request gave records, the second failed, the records
\* are still there and run went on to the end.
C10_Witness ==
    /\ pc = "done"
    /\ Len(sports) = 2
    /\ Len(odds_requests) = 2
    /\ odds_requests[1].resp.kind = "ok"
    /\ odds_requests[2].resp.kind = "exception"
    /\ odds_requests[2].before > 0
    /\ Len(odds_data) = odds_requests[2].before

====
